---------------------------- MODULE Spec2Model ----------------------------
(***************************************************************************)
(* Model of the mutation pipeline of cTracerX-mase-phi:                    *)
(*   - maf_agg.py        merge_mafs, write_phylowgs_input, main            *)
(*   - bootstrap_maf.py  bootstrap_va_dt, bootstrap_maf,                   *)
(*                       write_phylowgs_input, main                        *)
(*                                                                         *)
(* Numbers that live in pandas float columns are modelled as rationals     *)
(* <<num, den>>; NaN is 0/0.  The identity key of a mutation (the eight    *)
(* mut_cols) is modelled as one integer; pandas sorts the keys of an outer *)
(* merge, which here is the order of the integers.                         *)
(***************************************************************************)
EXTENDS Integers, Sequences, FiniteSets, TLC

VARIABLES
    \* ---- bootstrap_va_dt (one call) ----
    AF_list,          \* argument: per-site allele frequencies (rationals / NaN)
    Depth_list,       \* argument: per-site read depths (rationals den 1 / NaN)
    bootstrap_num,    \* argument: number of replicates
    count,            \* attempts made by the while-loop
    new_Depth_list,   \* last multinomial draw, [replicate][site]
    AF_list_update,   \* binomial results, [site][replicate] = <<sample, depth>>
    forced,           \* the "count >= 10" branch was taken by this call
    epc,              \* position inside bootstrap_va_dt
    \* ---- maf_agg.py ----
    cf, st, bc,       \* blood, tissue and germline tables read by main
    method,           \* -m / --method
    maf_agg,          \* result of merge_mafs
    \* ---- bootstrap_maf.py ----
    maf_df,           \* table read from the merged csv
    num_bootstraps,   \* -n
    phylowgs,         \* -p
    df_bootstrap,     \* augmented table (the replicate columns of each source)
    boot_i,           \* loop variable i of the replicate export
    stage,            \* replicate exports run side by side: progress of each
    \* ---- process_tracerX.py ----
    patient_df,       \* the rows of one patient
    tp,               \* position of the loop over the timepoints
    processed_timepoints,
    \* ---- shared ----
    files,            \* the output directory: path -> content
    pc                \* position of the running main()

vars == <<AF_list, Depth_list, bootstrap_num, count, new_Depth_list,
          AF_list_update, forced, epc, cf, st, bc, method, maf_agg, maf_df,
          num_bootstraps, phylowgs, df_bootstrap, boot_i, stage,
          patient_df, tp, processed_timepoints, files, pc>>

engineVars == <<AF_list, Depth_list, bootstrap_num, count, new_Depth_list,
                AF_list_update, forced, epc>>
aggVars    == <<cf, st, bc, method, maf_agg>>
pipeVars   == <<maf_df, num_bootstraps, phylowgs, df_bootstrap, boot_i, stage>>
tracVars   == <<patient_df, tp, processed_timepoints>>

\* process_tracerX.py is not running
TracIdle == patient_df = <<>> /\ tp = 0 /\ processed_timepoints = 0

---------------------------------------------------------------------------
(* Bounds of the model *)
MaxSites == 2        \* rows of a table / sites of one bootstrap_va_dt call
MaxDepth == 2        \* largest read depth of one site
MaxBoot  == 2        \* largest number of replicates
NKeys    == 3        \* number of distinct mutation identity keys

(* Program constants *)
MaxAttempts == 10    \* "if count >= 10"

---------------------------------------------------------------------------
(* Floats *)
NaN == <<0, 0>>
Num(n) == <<n, 1>>
isna(x) == x[2] = 0

RECURSIVE SumTo(_, _)
SumTo(s, k) == IF k = 0 THEN 0 ELSE s[k] + SumTo(s, k - 1)

SeqSum(s) == SumTo(s, Len(s))

total_depth_as_len(depths) == Num(Len(depths))

\* sum(Depth_list): NaN as soon as one depth is NaN
total_depth_of(depths) ==
    IF \E i \in DOMAIN depths : isna(depths[i]) THEN NaN
    ELSE Num(SeqSum([i \in DOMAIN depths |-> depths[i][1]]))

---------------------------------------------------------------------------
(* np.random.multinomial(n = total, pvals = depths / total): every vector  *)
(* of non-negative counts that sums to total, with count 0 wherever the    *)
(* probability is 0.                                                       *)
MultinomialSupport_smoothed(depths, total) ==
    { v \in [DOMAIN depths -> 0..total] : SeqSum(v) = total }

MultinomialSupport(depths, total) ==
    { v \in [DOMAIN depths -> 0..total] :
        /\ SeqSum(v) = total
        /\ \A i \in DOMAIN depths : depths[i][1] = 0 => v[i] = 0 }

\* np.any(new_Depth_list == 0)
AnyZero(M) == \E j \in DOMAIN M : \E i \in DOMAIN M[j] : M[j][i] = 0

ForceNothing(M) == M

\* every entry of a replicate that has a zero becomes 1
ForceZeros_whole_replicate(M) ==
    [j \in DOMAIN M |->
        [i \in DOMAIN M[j] |->
            IF \E h \in DOMAIN M[j] : M[j][h] = 0 THEN 1 ELSE M[j][i]]]

\* new_Depth_list[np.where(new_Depth_list == 0)] = 1
ForceZeros(M) ==
    [j \in DOMAIN M |-> [i \in DOMAIN M[j] |-> IF M[j][i] = 0 THEN 1 ELSE M[j][i]]]

\* np.random.binomial(n, p): 0..n, but only 0 when p = 0 and only n when p = 1
BinomialSupport(n, p) ==
    IF p[1] = 0 THEN {0}
    ELSE IF p[1] = p[2] THEN {n}
    ELSE 0..n

\* every tuple t of length k with t[m] \in S[m]
RECURSIVE Product(_, _)
Product(S, k) ==
    IF k = 0 THEN {<<>>}
    ELSE {Append(t, x) : t \in Product(S, k - 1), x \in S[k]}

\* the results the double loop over (i, j) can leave in AF_list_update:
\* sample / new_Depth_list[j, i], kept as the pair <<sample, new depth>>
BinomialMatrices(af, M) ==
    LET n == Len(af)
        N == Len(M)
        Row(i) == Product([j \in 1..N |->
                     {<<x, M[j][i]>> : x \in BinomialSupport(M[j][i], af[i])}], N)
    IN  Product([i \in 1..n |-> Row(i)], n)

\* new_Depth_list.T, sites x replicates
Transpose(M, n) == [i \in 1..n |-> [j \in 1..Len(M) |-> M[j][i]]]

---------------------------------------------------------------------------
(* bootstrap_va_dt *)

\* entry of a call: AF_list, Depth_list, bootstrap_num bound, count = 0
EnterVaDt(af, depth, n) ==
    /\ AF_list' = af
    /\ Depth_list' = depth
    /\ bootstrap_num' = n
    /\ count' = 0
    /\ new_Depth_list' = <<>>
    /\ AF_list_update' = <<>>
    /\ forced' = FALSE
    /\ epc' = "loop"

\* the zeros of the first draw that has any are forced, without a redraw
LoopBody_force_at_once(M) ==
    /\ count' = count + 1
    /\ IF ~AnyZero(M)
         THEN /\ new_Depth_list' = M
              /\ forced' = FALSE
              /\ epc' = "binom"
         ELSE /\ new_Depth_list' = ForceZeros(M)
              /\ forced' = TRUE
              /\ epc' = "binom"

\* what one pass of the while-loop does with the draw M
LoopBody(M) ==
    /\ count' = count + 1
    /\ IF ~AnyZero(M)
         THEN /\ new_Depth_list' = M
              /\ forced' = FALSE
              /\ epc' = "binom"
         ELSE IF count + 1 >= MaxAttempts
         THEN /\ new_Depth_list' = ForceZeros(M)
              /\ forced' = TRUE
              /\ epc' = "binom"
         ELSE /\ new_Depth_list' = M
              /\ forced' = FALSE
              /\ epc' = "loop"

Raise ==
    /\ epc' = "raise"
    /\ UNCHANGED <<count, new_Depth_list, forced>>

\* one pass of "while True": count += 1, the multinomial draw of all
\* replicates, the zero test and the forced floor
Draw ==
    /\ epc = "loop"
    /\ LET total == total_depth_of(Depth_list) IN
         IF isna(total)
         THEN Raise                       \* n = nan is no integer
         ELSE IF total[1] = 0
         THEN \* pvals = 0/0 is NaN: numpy either rejects it (ValueError) or,
              \* in releases without that test, draws n = 0 as all zeros
              \/ Raise
              \/ LoopBody([j \in 1..bootstrap_num |->
                              [i \in DOMAIN Depth_list |-> 0]])
         ELSE \E M \in [1..bootstrap_num ->
                          MultinomialSupport(Depth_list, total[1])] :
                  LoopBody(M)
    /\ UNCHANGED <<AF_list, Depth_list, bootstrap_num, AF_list_update>>

\* the double loop drawing sample / new_Depth_list[j, i]
Binomial ==
    /\ epc = "binom"
    /\ IF bootstrap_num >= 1 /\ \E i \in DOMAIN AF_list : isna(AF_list[i])
         THEN /\ epc' = "raise"          \* p is nan
              /\ UNCHANGED AF_list_update
         ELSE /\ \E S \in BinomialMatrices(AF_list, new_Depth_list) :
                     AF_list_update' = S
              /\ epc' = "ret"
    /\ UNCHANGED <<AF_list, Depth_list, bootstrap_num, count, new_Depth_list,
                   forced>>

\* the returned pair (AF_list_update, new_Depth_list.T)
RetFreq == AF_list_update
RetDepth == Transpose(new_Depth_list, Len(AF_list))

---------------------------------------------------------------------------
(* Tables *)
Keys == 1..NKeys

\* the keys of a set in ascending order (the row order of an outer merge)
RECURSIVE SortedKeys(_)
SortedKeys(S) ==
    IF S = {} THEN <<>>
    ELSE LET m == CHOOSE x \in S : \A y \in S : x <= y
         IN  <<m>> \o SortedKeys(S \ {m})

\* the output directory
Path(dir, name) == <<dir, name>>
\* to_csv in append mode: a second write adds to what the file holds
WriteFile_append(fs, p, content) ==
    [q \in DOMAIN fs \cup {p} |->
        IF q # p THEN fs[q]
        ELSE IF p \in DOMAIN fs THEN fs[p] \o content ELSE content]

\* to_csv(path) and open(path, 'w'): the file is created or overwritten
WriteFile(fs, p, content) ==
    [q \in DOMAIN fs \cup {p} |-> IF q = p THEN content ELSE fs[q]]
NoFiles == [q \in {} |-> <<>>]

---------------------------------------------------------------------------
(* maf_agg.py: merge_mafs *)

common_keys_always_outer(cf_, st_, m) == DOMAIN cf_ \cup DOMAIN st_

\* cf.merge(st, on = mut_cols, how = m, suffixes = ("_cf", "_st")): the keys
common_keys(cf_, st_, m) ==
    IF m = "inner" THEN DOMAIN cf_ \cap DOMAIN st_
    ELSE DOMAIN cf_ \cup DOMAIN st_

\* a source that lacks the key contributes 0
common_row_fill_zero(cf_, st_, k) ==
    [key |-> k,
     Variant_Frequencies_st |-> IF k \in DOMAIN st_ THEN st_[k].vaf ELSE Num(0),
     Variant_Frequencies_cf |-> IF k \in DOMAIN cf_ THEN cf_[k].vaf ELSE Num(0),
     Total_Depth_st |-> IF k \in DOMAIN st_ THEN st_[k].depth ELSE Num(0),
     Total_Depth_cf |-> IF k \in DOMAIN cf_ THEN cf_[k].depth ELSE Num(0)]

\* one row of common: a source that lacks the key contributes NaN
common_row(cf_, st_, k) ==
    [key |-> k,
     Variant_Frequencies_st |-> IF k \in DOMAIN st_ THEN st_[k].vaf ELSE NaN,
     Variant_Frequencies_cf |-> IF k \in DOMAIN cf_ THEN cf_[k].vaf ELSE NaN,
     Total_Depth_st |-> IF k \in DOMAIN st_ THEN st_[k].depth ELSE NaN,
     Total_Depth_cf |-> IF k \in DOMAIN cf_ THEN cf_[k].depth ELSE NaN]

\* the _merge indicator of common.merge(bc, indicator = True, how = "outer")
merge_indicator(common, bc_, k) ==
    IF k \in common /\ k \in bc_ THEN "both"
    ELSE IF k \in common THEN "left_only"
    ELSE "right_only"

anti_join_keys_not_right(common, bc_) ==
    {k \in common \cup bc_ : merge_indicator(common, bc_, k) # "right_only"}

\* outer[outer._merge == "left_only"], as the set of its keys
anti_join_keys(common, bc_) ==
    {k \in common \cup bc_ : merge_indicator(common, bc_, k) = "left_only"}

\* the row labels of outer: common.merge(bc, how = "outer") numbers the rows
\* of its result, sorted by key, from 0
outer_index(common, bc_) ==
    LET order == SortedKeys(common \cup bc_)
    IN  [k \in common \cup bc_ |-> (CHOOSE p \in DOMAIN order : order[p] = k) - 1]

\* the labels the rows of anti_join keep from outer
anti_join_index(common, bc_) ==
    LET order == SortedKeys(anti_join_keys(common, bc_))
    IN  [p \in DOMAIN order |-> outer_index(common, bc_)[order[p]]]

\* the labels stay the ones of outer
reset_index_kept(labels) == labels

\* anti_join.reset_index(drop = True)
reset_index(labels) == [p \in DOMAIN labels |-> p - 1]

merge_mafs_else_outer(cf_, st_, bc_, m) ==
    LET common == common_keys(cf_, st_, m)
        order  == SortedKeys(anti_join_keys(common, bc_))
    IN  [raised |-> FALSE, merges |-> 2,
         df |-> [p \in DOMAIN order |-> common_row(cf_, st_, order[p])],
         index |-> reset_index(anti_join_index(common, bc_))]

\* merge_mafs(cf, st, bc, method): raised, or the table after reset_index
\* (row at position p has index p - 1) and the projection
merge_mafs(cf_, st_, bc_, m) ==
    IF m \notin {"inner", "outer"}
    THEN [raised |-> TRUE, merges |-> 0, df |-> <<>>, index |-> <<>>]
    ELSE LET common == common_keys(cf_, st_, m)
             order  == SortedKeys(anti_join_keys(common, bc_))
         IN  [raised |-> FALSE, merges |-> 2,
              df |-> [p \in DOMAIN order |-> common_row(cf_, st_, order[p])],
              index |-> reset_index(anti_join_index(common, bc_))]

KeysOf(df) == {df[p].key : p \in DOMAIN df}

---------------------------------------------------------------------------
(* write_phylowgs_input: the original (non-bootstrapped) record set *)

\* np.round(n / d): round half to even
RoundHalfEven(n, d) ==
    LET q == n \div d
        r == n % d
    IN  IF 2 * r < d THEN q
        ELSE IF 2 * r > d THEN q + 1
        ELSE IF q % 2 = 0 THEN q ELSE q + 1

\* the variant count int(np.round(depth * vaf)) in the place of the
\* reference count
ref_count_as_variant(depth, vaf) == RoundHalfEven(depth * vaf[1], vaf[2])

\* int(np.round(depth * (1 - vaf))) for an integer depth and a vaf that is
\* not NaN
ref_count_of(depth, vaf) == RoundHalfEven(depth * (vaf[2] - vaf[1]), vaf[2])

\* the "continue" test of the original export
skip_row(row) ==
    isna(row.Total_Depth_st) \/ isna(row.Variant_Frequencies_st)

\* has_blood of the original export
has_blood_of(row) ==
    /\ "Total_Depth_cf" \in DOMAIN row
    /\ "Variant_Frequencies_cf" \in DOMAIN row
    /\ ~isna(row.Total_Depth_cf)

\* int(np.round(blood_depth * (1 - blood_vaf))) fails on a NaN blood_vaf
row_raises(row) ==
    /\ ~skip_row(row)
    /\ has_blood_of(row)
    /\ isna(row.Variant_Frequencies_cf)

\* the identity columns of key k that the exporter reads: odd keys carry a
\* gene symbol, even keys have an empty Hugo_Symbol field (NaN, not a str)
Hugo_Symbol(k) == [isstr |-> k % 2 = 1, name |-> k]
Chromosome(k) == (k + 1) \div 2
Start_Position(k) == k

\* row["Hugo_Symbol"] if isinstance(row["Hugo_Symbol"], str) else
\* f"{row['Chromosome']}_{row['Start_Position']}"
gene_of(row) ==
    IF Hugo_Symbol(row.key).isstr
    THEN <<"Hugo_Symbol", Hugo_Symbol(row.key).name>>
    ELSE <<"Chromosome_Start_Position", Chromosome(row.key),
           Start_Position(row.key)>>

mu_r == <<999, 1000>>
mu_v == <<499, 1000>>

\* the dict appended for the row with index idx; a and d are the
\* comma-separated lists " blood, tissue " or the single tissue value
ssm_record(idx, row) ==
    LET tissue_depth == row.Total_Depth_st[1]
        tissue_ref   == ref_count_of(tissue_depth, row.Variant_Frequencies_st)
    IN  IF has_blood_of(row)
        THEN LET blood_depth == row.Total_Depth_cf[1]
                 blood_ref   == ref_count_of(blood_depth,
                                             row.Variant_Frequencies_cf)
             IN  [id |-> idx, gene |-> gene_of(row),
                  a |-> <<blood_ref, tissue_ref>>,
                  d |-> <<blood_depth, tissue_depth>>,
                  mu_r |-> mu_r, mu_v |-> mu_v]
        ELSE [id |-> idx, gene |-> gene_of(row),
              a |-> <<tissue_ref>>, d |-> <<tissue_depth>>,
              mu_r |-> mu_r, mu_v |-> mu_v]

\* a row without tissue values is written with zeros instead of being skipped
RECURSIVE original_records_fillna(_, _)
original_records_fillna(df, n) ==
    IF n = 0 THEN <<>>
    ELSE IF skip_row(df[n])
    THEN Append(original_records_fillna(df, n - 1),
                [id |-> n - 1, gene |-> gene_of(df[n]), a |-> <<0>>,
                 d |-> <<0>>, mu_r |-> mu_r, mu_v |-> mu_v])
    ELSE Append(original_records_fillna(df, n - 1), ssm_record(n - 1, df[n]))

\* phylowgs_format after the loop over df.iterrows()
RECURSIVE original_records(_, _)
original_records(df, n) ==
    IF n = 0 THEN <<>>
    ELSE IF skip_row(df[n]) THEN original_records(df, n - 1)
    ELSE Append(original_records(df, n - 1), ssm_record(n - 1, df[n]))

\* the loop raises at the first row whose blood frequency is NaN
original_raises(df) == \E p \in DOMAIN df : row_raises(df[p])

---------------------------------------------------------------------------
(* maf_agg.py: main, and merge_mafs called by an importing caller *)
Choices == {"inner", "outer"}
CSV == Path(0, "maf_agg.csv")
EMPTY == Path(0, "empty.txt")
SSM_ORIGINAL == Path(0, "ssm_data_original.txt")

is_empty_never(df) == FALSE

\* maf_agg.empty
is_empty(df) == Len(df) = 0

\* parser.parse_args(): -m is restricted to choices
ParseArgs ==
    /\ pc = "parse"
    /\ pc' = IF method \in Choices THEN "merge" ELSE "usage"
    /\ UNCHANGED <<aggVars, files>>

\* maf_agg = merge_mafs(cf, st, bc, method = args.method); if maf_agg.empty
MergeMain ==
    /\ pc = "merge"
    /\ LET r == merge_mafs(cf, st, bc, method) IN
         IF r.raised
         THEN pc' = "error" /\ UNCHANGED maf_agg
         ELSE /\ maf_agg' = r.df
              /\ pc' = IF is_empty(r.df) THEN "empty" ELSE "save"
    /\ UNCHANGED <<cf, st, bc, method, files>>

\* the empty.txt flag file, then return
WriteEmpty ==
    /\ pc = "empty"
    /\ files' = WriteFile(files, EMPTY, "No common mutations found")
    /\ pc' = "done"
    /\ UNCHANGED aggVars

\* maf_agg.to_csv(args.output_dir)
SaveAgg ==
    /\ pc = "save"
    /\ files' = WriteFile(files, CSV, maf_agg)
    /\ pc' = "export"
    /\ UNCHANGED aggVars

\* write_phylowgs_input(maf_agg, output_dir)
ExportAgg ==
    /\ pc = "export"
    /\ IF original_raises(maf_agg)
         THEN pc' = "error" /\ UNCHANGED files
         ELSE /\ files' = WriteFile(files, SSM_ORIGINAL,
                                    original_records(maf_agg, Len(maf_agg)))
              /\ pc' = "done"
    /\ UNCHANGED aggVars

\* write_phylowgs_input called once more on the same table and directory,
\* after a completed export
ExportAgain ==
    /\ pc = "done" /\ SSM_ORIGINAL \in DOMAIN files
    /\ files' = WriteFile(files, SSM_ORIGINAL,
                          original_records(maf_agg, Len(maf_agg)))
    /\ pc' = "again"
    /\ UNCHANGED aggVars

\* merge_mafs(cf, st, bc, method) called directly
CallMerge ==
    /\ pc = "call"
    /\ LET r == merge_mafs(cf, st, bc, method) IN
         IF r.raised
         THEN pc' = "error" /\ UNCHANGED maf_agg
         ELSE maf_agg' = r.df /\ pc' = "returned"
    /\ UNCHANGED <<cf, st, bc, method, files>>

\* the observations of the input tables
StObs == {[vaf |-> <<1, 2>>, depth |-> Num(1)],
          [vaf |-> <<1, 2>>, depth |-> NaN]}
CfObs == {[vaf |-> <<1, 2>>, depth |-> Num(MaxDepth)],
          [vaf |-> NaN, depth |-> Num(MaxDepth)]}

TablesOver(Obs) == UNION {[K -> Obs] : K \in SUBSET Keys}

NotComputed == <<[key |-> 0]>>

InitAgg ==
    /\ TracIdle
    /\ cf \in TablesOver(CfObs)
    /\ st \in TablesOver(StObs)
    /\ bc \in SUBSET Keys
    /\ method \in {"inner", "outer", "union"}
    /\ maf_agg = NotComputed
    /\ files = NoFiles
    /\ pc \in {"parse", "call"}
    /\ AF_list = <<>> /\ Depth_list = <<>> /\ bootstrap_num = 0 /\ count = 0
    /\ new_Depth_list = <<>> /\ AF_list_update = <<>> /\ forced = FALSE
    /\ epc = "idle"
    /\ maf_df = <<>> /\ num_bootstraps = 0 /\ phylowgs = FALSE
    /\ df_bootstrap = <<>> /\ boot_i = 0 /\ stage = <<>>

NextAgg ==
    \/ ParseArgs /\ UNCHANGED <<engineVars, pipeVars, tracVars>>
    \/ MergeMain /\ UNCHANGED <<engineVars, pipeVars, tracVars>>
    \/ WriteEmpty /\ UNCHANGED <<engineVars, pipeVars, tracVars>>
    \/ SaveAgg /\ UNCHANGED <<engineVars, pipeVars, tracVars>>
    \/ ExportAgg /\ UNCHANGED <<engineVars, pipeVars, tracVars>>
    \/ ExportAgain /\ UNCHANGED <<engineVars, pipeVars, tracVars>>
    \/ CallMerge /\ UNCHANGED <<engineVars, pipeVars, tracVars>>

SpecAgg == InitAgg /\ [][NextAgg]_vars

\* merge_mafs has returned a table (to main or to a direct caller)
AggComputed == maf_agg # NotComputed

\* C3: in intersection mode the keys of the table returned by merge_mafs are
\* exactly (keys(tissue) \cap keys(blood)) \ keys(germline)
C3_InnerKeys ==
    (AggComputed /\ method = "inner") =>
        KeysOf(maf_agg) = (DOMAIN st \cap DOMAIN cf) \ bc

\* tissue {1,2,3}, blood {2,3}, germline {3} has been merged to exactly {2}
C3_Witness ==
    /\ AggComputed /\ method = "inner"
    /\ DOMAIN st = {1, 2, 3} /\ DOMAIN cf = {2, 3} /\ bc = {3}
    /\ KeysOf(maf_agg) = {2}

\* C4: in union mode the keys of the table returned by merge_mafs are exactly
\* (keys(tissue) \cup keys(blood)) \ keys(germline), and in both modes no key
\* of the germline table is in the result
C4_OuterKeysAndGermline ==
    AggComputed =>
        /\ KeysOf(maf_agg) \cap bc = {}
        /\ method = "outer" =>
               KeysOf(maf_agg) = (DOMAIN st \cup DOMAIN cf) \ bc

\* tissue {1,2}, blood {2,3}, germline {2}: the union join has dropped a key
\* seen in both sources and kept the keys seen in one
C4_Witness ==
    /\ AggComputed /\ method = "outer"
    /\ DOMAIN st = {1, 2} /\ DOMAIN cf = {2, 3} /\ bc = {2}
    /\ KeysOf(maf_agg) = {1, 3}

\* C5: with a join mode other than inner/outer the call fails before any
\* join: merge_mafs raises without merging, no table is returned and nothing
\* is written
C5_UnknownModeFailsFast ==
    method \notin Choices =>
        /\ merge_mafs(cf, st, bc, method).raised
        /\ merge_mafs(cf, st, bc, method).merges = 0
        /\ ~AggComputed
        /\ files = NoFiles
        /\ pc \in {"parse", "usage", "call", "error"}

\* merge_mafs was called with the mode "union" on non-empty tables and raised
C5_Witness ==
    /\ method = "union" /\ pc = "error"
    /\ DOMAIN st # {} /\ DOMAIN cf # {}

\* main has called merge_mafs
MainMerged == AggComputed /\ pc \in {"empty", "save", "export", "done", "error"}

\* C6: when main's aggregation has zero rows, only the sentinel empty.txt is
\* ever written and the run ends normally; when it has rows, the sentinel is
\* never written
C6_EmptyResult ==
    MainMerged =>
        IF Len(maf_agg) = 0
        THEN /\ pc \in {"empty", "done"}
             /\ DOMAIN files \subseteq {EMPTY}
             /\ pc = "done" => DOMAIN files = {EMPTY}
        ELSE EMPTY \notin DOMAIN files

\* a run whose join kept nothing has ended with the sentinel alone
C6_Witness ==
    /\ MainMerged /\ Len(maf_agg) = 0 /\ pc = "done"
    /\ DOMAIN st # {} /\ DOMAIN cf # {}
    /\ DOMAIN files = {EMPTY}

\* C8: every row of the aggregated table with exactly one valid source,
\* tissue or blood, is exported as one record whose a and d are the scalar
\* reference count and depth of that source
C8_SingleSourceExported ==
    (pc = "done" /\ SSM_ORIGINAL \in DOMAIN files) =>
        \A p \in DOMAIN maf_agg :
            LET row == maf_agg[p]
                tissue == ~isna(row.Total_Depth_st) /\ ~isna(row.Variant_Frequencies_st)
                blood  == ~isna(row.Total_Depth_cf) /\ ~isna(row.Variant_Frequencies_cf)
                recs   == {x \in DOMAIN files[SSM_ORIGINAL] :
                              files[SSM_ORIGINAL][x].id = p - 1}
            IN  /\ (tissue /\ ~blood) =>
                      \E x \in recs :
                         /\ files[SSM_ORIGINAL][x].d = <<row.Total_Depth_st[1]>>
                         /\ files[SSM_ORIGINAL][x].a =
                               <<ref_count_of(row.Total_Depth_st[1],
                                              row.Variant_Frequencies_st)>>
                /\ (blood /\ ~tissue) =>
                      \E x \in recs :
                         /\ files[SSM_ORIGINAL][x].d = <<row.Total_Depth_cf[1]>>
                         /\ files[SSM_ORIGINAL][x].a =
                               <<ref_count_of(row.Total_Depth_cf[1],
                                              row.Variant_Frequencies_cf)>>

\* C9: a blood observation whose frequency is NaN counts as absent: the export
\* of a non-empty table completes, and a row with valid tissue values and a
\* NaN blood frequency is written as the tissue-only scalar record
C9_MissingFrequencyIsAbsent ==
    (MainMerged /\ Len(maf_agg) > 0 /\ pc \in {"done", "error"}) =>
        /\ pc = "done"
        /\ SSM_ORIGINAL \in DOMAIN files
        /\ \A p \in DOMAIN maf_agg :
              LET row == maf_agg[p] IN
              (/\ ~isna(row.Total_Depth_st) /\ ~isna(row.Variant_Frequencies_st)
               /\ isna(row.Variant_Frequencies_cf)) =>
                 \E x \in DOMAIN files[SSM_ORIGINAL] :
                    /\ files[SSM_ORIGINAL][x].id = p - 1
                    /\ files[SSM_ORIGINAL][x].d = <<row.Total_Depth_st[1]>>
                    /\ files[SSM_ORIGINAL][x].a =
                          <<ref_count_of(row.Total_Depth_st[1],
                                         row.Variant_Frequencies_st)>>

\* C11: the k-th record of the original record set, counting from 0, has
\* id k, so the ids are 0..m-1 without gaps also when rows were skipped
C11_StableIds ==
    SSM_ORIGINAL \in DOMAIN files =>
        \A x \in DOMAIN files[SSM_ORIGINAL] : files[SSM_ORIGINAL][x].id = x - 1

C23_DenseIndex ==
    AggComputed =>
        LET index == merge_mafs(cf, st, bc, method).index
        IN  /\ Len(index) = Len(maf_agg)
            /\ \A p \in DOMAIN index : index[p] = p - 1

\* the germline filter removed the first of three keys of a union join, so
\* the rows kept were rows 1 and 2 of the merge with the germline table
C23_Witness ==
    /\ AggComputed /\ method = "outer" /\ bc = {1}
    /\ KeysOf(maf_agg) = {2, 3}
    /\ anti_join_index(common_keys(cf, st, method), bc) = <<1, 2>>

\* C24: in the result of a union join a row whose key is in one table only
\* has NaN for the frequency and the depth of the other source, and every
\* row carries the observed values of each table that has its key
C24_UnionMissingValues ==
    (AggComputed /\ method = "outer") =>
        \A p \in DOMAIN maf_agg :
            LET row == maf_agg[p]
                k == row.key
            IN  /\ k \notin DOMAIN cf =>
                      isna(row.Variant_Frequencies_cf) /\ isna(row.Total_Depth_cf)
                /\ k \notin DOMAIN st =>
                      isna(row.Variant_Frequencies_st) /\ isna(row.Total_Depth_st)
                /\ k \in DOMAIN cf =>
                      /\ row.Variant_Frequencies_cf = cf[k].vaf
                      /\ row.Total_Depth_cf = cf[k].depth
                /\ k \in DOMAIN st =>
                      /\ row.Variant_Frequencies_st = st[k].vaf
                      /\ row.Total_Depth_st = st[k].depth

\* a union join returned a tissue-only key, a key of both tables and a
\* blood-only key, all with observed values
C24_Witness ==
    /\ AggComputed /\ method = "outer" /\ bc = {}
    /\ DOMAIN st = {1, 2} /\ DOMAIN cf = {2, 3}
    /\ Len(maf_agg) = 3
    /\ \A k \in DOMAIN st : ~isna(st[k].depth)
    /\ \A k \in DOMAIN cf : ~isna(cf[k].vaf)

---------------------------------------------------------------------------
(* bootstrap_maf.py: bootstrap_maf *)

\* maf_df[col].tolist()
column(df, col) == [p \in DOMAIN df |-> df[p][col]]

HasColumn(df, col) == \A p \in DOMAIN df : col \in DOMAIN df[p]

\* the new columns take the place of the table's replicate columns
concat_columns_replacing(df, vaf_name, af_boot, depth_name, depth_boot, N) ==
    [rows |-> df.rows,
     boot |-> [c \in {<<vaf_name, i>> : i \in 1..N} \cup {<<depth_name, i>> : i \in 1..N} |->
                 IF c[1] = vaf_name
                 THEN [p \in DOMAIN df.rows |-> af_boot[p][c[2]]]
                 ELSE [p \in DOMAIN df.rows |-> depth_boot[p][c[2]]]]]

\* pd.concat([df_bootstrap, DataFrame(af_boot, columns = <vaf>_bootstrap_1..N),
\* DataFrame(depth_boot, columns = <depth>_bootstrap_1..N)], axis = 1):
\* the replicate columns are kept per name and replicate index
concat_columns(df, vaf_name, af_boot, depth_name, depth_boot, N) ==
    LET new == {<<vaf_name, i>> : i \in 1..N} \cup {<<depth_name, i>> : i \in 1..N}
    IN  [rows |-> df.rows,
         boot |-> [c \in DOMAIN df.boot \cup new |->
                     IF c \in DOMAIN df.boot THEN df.boot[c]
                     ELSE IF c[1] = vaf_name
                     THEN [p \in DOMAIN df.rows |-> af_boot[p][c[2]]]
                     ELSE [p \in DOMAIN df.rows |-> depth_boot[p][c[2]]]]]

\* df_bootstrap = maf_df.copy(); the tissue call of bootstrap_va_dt
BootstrapTissue ==
    /\ pc = "start"
    /\ df_bootstrap' = [rows |-> maf_df, boot |-> NoFiles]
    /\ EnterVaDt(column(maf_df, "Variant_Frequencies_st"),
                 column(maf_df, "Total_Depth_st"), num_bootstraps)
    /\ pc' = "tissue"
    /\ UNCHANGED <<maf_df, num_bootstraps, phylowgs, boot_i, stage, files>>

\* the tissue columns are appended; the blood call if the blood columns exist
TissueDone ==
    /\ pc = "tissue" /\ epc = "ret"
    /\ df_bootstrap' = concat_columns(df_bootstrap,
                          "Variant_Frequencies_st_bootstrap", RetFreq,
                          "Total_Depth_st_bootstrap", RetDepth, bootstrap_num)
    /\ IF HasColumn(maf_df, "Variant_Frequencies_cf")
         THEN /\ EnterVaDt(column(maf_df, "Variant_Frequencies_cf"),
                           column(maf_df, "Total_Depth_cf"), num_bootstraps)
              /\ pc' = "blood"
         ELSE /\ epc' = "idle"
              /\ UNCHANGED <<AF_list, Depth_list, bootstrap_num, count,
                             new_Depth_list, AF_list_update, forced>>
              /\ pc' = "save"
    /\ UNCHANGED <<maf_df, num_bootstraps, phylowgs, boot_i, stage, files>>

\* the blood columns are appended; return df_bootstrap
BloodDone ==
    /\ pc = "blood" /\ epc = "ret"
    /\ df_bootstrap' = concat_columns(df_bootstrap,
                          "Variant_Frequencies_cf_bootstrap", RetFreq,
                          "Total_Depth_cf_bootstrap", RetDepth, bootstrap_num)
    /\ epc' = "idle"
    /\ pc' = "save"
    /\ UNCHANGED <<AF_list, Depth_list, bootstrap_num, count, new_Depth_list,
                   AF_list_update, forced>>
    /\ UNCHANGED <<maf_df, num_bootstraps, phylowgs, boot_i, stage, files>>

\* an exception of bootstrap_va_dt ends main
BootstrapFails ==
    /\ pc \in {"tissue", "blood"} /\ epc = "raise"
    /\ pc' = "error"
    /\ UNCHANGED <<engineVars, pipeVars, files>>

---------------------------------------------------------------------------
(* bootstrap_maf.py: write_phylowgs_input, the replicates *)
BOOTSTRAPPED == Path(0, "bootstrapped_maf.csv")
SSM_BOOTSTRAP(i) == Path(i, "ssm_data_bootstrap.txt")

\* [int(col.split('_')[-1]) for col in columns
\*  if col.startswith('Total_Depth_st_bootstrap_')]
bootstrap_nums(df) ==
    {c[2] : c \in {x \in DOMAIN df.boot : x[1] = "Total_Depth_st_bootstrap"}}

SetMax(S) == CHOOSE x \in S : \A y \in S : y <= x

\* has_blood of replicate i: both blood columns exist and the depth is a number
has_blood_boot(df, p, i) ==
    /\ <<"Total_Depth_cf_bootstrap", i>> \in DOMAIN df.boot
    /\ <<"Variant_Frequencies_cf_bootstrap", i>> \in DOMAIN df.boot
    /\ ~isna(Num(df.boot[<<"Total_Depth_cf_bootstrap", i>>][p]))

\* the pair fields written tissue first
boot_record_tissue_first(df, p, i) ==
    LET tissue_depth == df.boot[<<"Total_Depth_st_bootstrap", i>>][p]
        tissue_vaf   == df.boot[<<"Variant_Frequencies_st_bootstrap", i>>][p]
        tissue_ref   == ref_count_of(tissue_depth, tissue_vaf)
    IN  IF has_blood_boot(df, p, i)
        THEN LET blood_depth == df.boot[<<"Total_Depth_cf_bootstrap", i>>][p]
                 blood_vaf   == df.boot[<<"Variant_Frequencies_cf_bootstrap", i>>][p]
                 blood_ref   == ref_count_of(blood_depth, blood_vaf)
             IN  [id |-> p - 1, gene |-> gene_of(df.rows[p]),
                  a |-> <<tissue_ref, blood_ref>>,
                  d |-> <<tissue_depth, blood_depth>>,
                  mu_r |-> mu_r, mu_v |-> mu_v]
        ELSE [id |-> p - 1, gene |-> gene_of(df.rows[p]),
              a |-> <<tissue_ref>>, d |-> <<tissue_depth>>,
              mu_r |-> mu_r, mu_v |-> mu_v]

\* the dict appended for row p (index p - 1) of replicate i
boot_record(df, p, i) ==
    LET tissue_depth == df.boot[<<"Total_Depth_st_bootstrap", i>>][p]
        tissue_vaf   == df.boot[<<"Variant_Frequencies_st_bootstrap", i>>][p]
        tissue_ref   == ref_count_of(tissue_depth, tissue_vaf)
    IN  IF has_blood_boot(df, p, i)
        THEN LET blood_depth == df.boot[<<"Total_Depth_cf_bootstrap", i>>][p]
                 blood_vaf   == df.boot[<<"Variant_Frequencies_cf_bootstrap", i>>][p]
                 blood_ref   == ref_count_of(blood_depth, blood_vaf)
             IN  [id |-> p - 1, gene |-> gene_of(df.rows[p]),
                  a |-> <<blood_ref, tissue_ref>>,
                  d |-> <<blood_depth, tissue_depth>>,
                  mu_r |-> mu_r, mu_v |-> mu_v]
        ELSE [id |-> p - 1, gene |-> gene_of(df.rows[p]),
              a |-> <<tissue_ref>>, d |-> <<tissue_depth>>,
              mu_r |-> mu_r, mu_v |-> mu_v]

\* rows whose resampled tissue frequency is 0 are left out of the replicate
boot_records_skip_zero(df, i) ==
    SelectSeq([p \in DOMAIN df.rows |-> boot_record(df, p, i)],
              LAMBDA r : r.a[Len(r.a)] # r.d[Len(r.d)])

\* boot_phylowgs after the loop over bootstrap_df.iterrows(): no row is skipped
boot_records(df, i) == [p \in DOMAIN df.rows |-> boot_record(df, p, i)]

---------------------------------------------------------------------------
(* bootstrap_maf.py: main *)

\* the exporter drops the rows it skips from the table itself
bootstrap_df_dropna(df) ==
    [df EXCEPT !.rows = SelectSeq(@, LAMBDA row : ~skip_row(row))]

\* bootstrap_df when write_phylowgs_input has run: the function assigns to no
\* column or cell of it, and iterrows() hands out copies of the rows
bootstrap_df_after(df) == df

\* bootstrap_df.to_csv(.. 'bootstrapped_maf.csv'); if args.phylowgs
SaveBootstrapped ==
    /\ pc = "save"
    /\ files' = WriteFile(files, BOOTSTRAPPED, df_bootstrap)
    /\ pc' = IF phylowgs THEN "original" ELSE "done"
    /\ UNCHANGED <<engineVars, pipeVars>>

\* write_phylowgs_input up to the replicate loop: the original record set,
\* then num_bootstraps = max(bootstrap_nums)
ExportOriginal ==
    /\ pc = "original"
    /\ IF original_raises(df_bootstrap.rows)
         THEN pc' = "error" /\ UNCHANGED <<files, boot_i>>
         ELSE /\ files' = WriteFile(files, SSM_ORIGINAL,
                    original_records(df_bootstrap.rows, Len(df_bootstrap.rows)))
              /\ IF bootstrap_nums(df_bootstrap) = {}
                   THEN pc' = "error" /\ UNCHANGED boot_i   \* max([])
                   ELSE pc' = "replicates" /\ boot_i' = 1
    /\ df_bootstrap' = bootstrap_df_after(df_bootstrap)
    /\ UNCHANGED <<engineVars, maf_df, num_bootstraps, phylowgs, stage>>

\* one pass of "for i in range(1, num_bootstraps + 1)"
ExportReplicate ==
    /\ pc = "replicates"
    /\ files' = WriteFile(files, SSM_BOOTSTRAP(boot_i),
                          boot_records(df_bootstrap, boot_i))
    /\ boot_i' = boot_i + 1
    /\ pc' = IF boot_i = SetMax(bootstrap_nums(df_bootstrap)) THEN "done"
             ELSE "replicates"
    /\ df_bootstrap' = bootstrap_df_after(df_bootstrap)
    /\ UNCHANGED <<engineVars, maf_df, num_bootstraps, phylowgs, stage>>

\* the cells of the merged csv read by main
PipeDepths == {NaN, Num(1)}
TissueAFs == {NaN, <<1, 2>>}
BloodAFs == {NaN, <<0, 1>>}

TissueRows == {[key |-> 0, Variant_Frequencies_st |-> f, Total_Depth_st |-> d] :
                 f \in TissueAFs, d \in PipeDepths}
BothRows == {[key |-> 0, Variant_Frequencies_st |-> f, Total_Depth_st |-> d,
              Variant_Frequencies_cf |-> g, Total_Depth_cf |-> e] :
                 f \in TissueAFs, d \in PipeDepths,
                 g \in BloodAFs, e \in PipeDepths}

\* row p of the csv carries key p
WithKeys(t) == [p \in DOMAIN t |-> [t[p] EXCEPT !.key = p]]

InitPipe ==
    /\ TracIdle
    /\ \E n \in 1..MaxSites : \E R \in {TissueRows, BothRows} :
          \E t \in [1..n -> R] : maf_df = WithKeys(t)
    /\ num_bootstraps \in 0..MaxBoot
    /\ phylowgs \in BOOLEAN
    /\ df_bootstrap = <<>>
    /\ boot_i = 0 /\ stage = <<>>
    /\ files = NoFiles
    /\ pc = "start"
    /\ AF_list = <<>> /\ Depth_list = <<>> /\ bootstrap_num = 0 /\ count = 0
    /\ new_Depth_list = <<>> /\ AF_list_update = <<>> /\ forced = FALSE
    /\ epc = "idle"
    /\ cf = <<>> /\ st = <<>> /\ bc = {} /\ method = "inner"
    /\ maf_agg = <<>>

NextPipe ==
    \/ BootstrapTissue /\ UNCHANGED <<aggVars, tracVars>>
    \/ Draw /\ UNCHANGED <<aggVars, pipeVars, files, pc, tracVars>>
    \/ Binomial /\ UNCHANGED <<aggVars, pipeVars, files, pc, tracVars>>
    \/ TissueDone /\ UNCHANGED <<aggVars, tracVars>>
    \/ BloodDone /\ UNCHANGED <<aggVars, tracVars>>
    \/ BootstrapFails /\ UNCHANGED <<aggVars, tracVars>>
    \/ SaveBootstrapped /\ UNCHANGED <<aggVars, tracVars>>
    \/ ExportOriginal /\ UNCHANGED <<aggVars, tracVars>>
    \/ ExportReplicate /\ UNCHANGED <<aggVars, tracVars>>

SpecPipe == InitPipe /\ [][NextPipe]_vars

\* a source observation is valid when neither its depth nor its frequency is NaN
TissueValid(row) ==
    ~isna(row.Total_Depth_st) /\ ~isna(row.Variant_Frequencies_st)
BloodValid(row) ==
    /\ "Total_Depth_cf" \in DOMAIN row /\ "Variant_Frequencies_cf" \in DOMAIN row
    /\ ~isna(row.Total_Depth_cf) /\ ~isna(row.Variant_Frequencies_cf)

\* the record sets written so far, and the ids found in one of them
RecordSetPaths == {q \in DOMAIN files : q # BOOTSTRAPPED /\ q # CSV /\ q # EMPTY}
IdsIn(q) == {files[q][x].id : x \in DOMAIN files[q]}
RecordOf(q, idx) == CHOOSE r \in {files[q][x] : x \in DOMAIN files[q]} : r.id = idx

\* C7: a row none of whose sources has a valid depth and a valid frequency
\* is in no record set written by bootstrap_maf.py, original or replicate
C7_RowSkip ==
    \A q \in RecordSetPaths : \A p \in DOMAIN maf_df :
        (~TissueValid(maf_df[p]) /\ ~BloodValid(maf_df[p])) => (p - 1) \notin IdsIn(q)

\* the original record set was written for a table with a row without any
\* valid source and a row that was exported
C7_Witness ==
    /\ SSM_ORIGINAL \in DOMAIN files
    /\ \E p \in DOMAIN maf_df : ~TissueValid(maf_df[p]) /\ ~BloodValid(maf_df[p])
    /\ IdsIn(SSM_ORIGINAL) # {}

\* C10: in every record set, original or replicate, the record of a row with
\* both sources has a = <<blood_ref, tissue_ref>> and d = <<blood_depth,
\* tissue_depth>>
C10_BloodFirst ==
    /\ SSM_ORIGINAL \in DOMAIN files =>
          \A p \in DOMAIN maf_df :
             (TissueValid(maf_df[p]) /\ BloodValid(maf_df[p])) =>
                /\ (p - 1) \in IdsIn(SSM_ORIGINAL)
                /\ RecordOf(SSM_ORIGINAL, p - 1).d =
                      <<maf_df[p].Total_Depth_cf[1], maf_df[p].Total_Depth_st[1]>>
                /\ RecordOf(SSM_ORIGINAL, p - 1).a =
                      <<ref_count_of(maf_df[p].Total_Depth_cf[1],
                                     maf_df[p].Variant_Frequencies_cf),
                        ref_count_of(maf_df[p].Total_Depth_st[1],
                                     maf_df[p].Variant_Frequencies_st)>>
    /\ \A i \in 1..MaxBoot + 1 :
          SSM_BOOTSTRAP(i) \in DOMAIN files =>
             \A p \in DOMAIN maf_df :
                (TissueValid(maf_df[p]) /\ BloodValid(maf_df[p])) =>
                   LET bd == df_bootstrap.boot[<<"Total_Depth_cf_bootstrap", i>>][p]
                       bf == df_bootstrap.boot[<<"Variant_Frequencies_cf_bootstrap", i>>][p]
                       td == df_bootstrap.boot[<<"Total_Depth_st_bootstrap", i>>][p]
                       tf == df_bootstrap.boot[<<"Variant_Frequencies_st_bootstrap", i>>][p]
                   IN  /\ (p - 1) \in IdsIn(SSM_BOOTSTRAP(i))
                       /\ RecordOf(SSM_BOOTSTRAP(i), p - 1).d = <<bd, td>>
                       /\ RecordOf(SSM_BOOTSTRAP(i), p - 1).a =
                             <<bd - bf[1], td - tf[1]>>

\* the second replicate of a two-source table was written, with a record
\* whose blood and tissue values differ in both fields
C10_Witness ==
    /\ SSM_ORIGINAL \in DOMAIN files
    /\ SSM_BOOTSTRAP(2) \in DOMAIN files
    /\ \E x \in DOMAIN files[SSM_BOOTSTRAP(2)] :
          LET r == files[SSM_BOOTSTRAP(2)][x]
          IN  Len(r.d) = 2 /\ r.d[1] # r.d[2] /\ r.a[1] # r.a[2]

\* bootstrap_maf has returned to main
BootstrapReturned == pc \in {"save", "original", "replicates", "done"}

\* the replicate columns bootstrap_maf has to add for the sources of maf_df
ExpectedColumns ==
    LET names == {"Variant_Frequencies_st_bootstrap", "Total_Depth_st_bootstrap"}
                 \cup IF HasColumn(maf_df, "Variant_Frequencies_cf")
                      THEN {"Variant_Frequencies_cf_bootstrap",
                            "Total_Depth_cf_bootstrap"}
                      ELSE {}
    IN  {<<nm, i>> : nm \in names, i \in 1..num_bootstraps}

\* C14: the table returned by bootstrap_maf has the rows of maf_df, same order
\* and values, plus exactly the N frequency and N depth columns of each source
\* present, one value per row; and maf_df itself never changes
C14_AugmentedTable ==
    /\ [](BootstrapReturned =>
            /\ df_bootstrap.rows = maf_df
            /\ DOMAIN df_bootstrap.boot = ExpectedColumns
            /\ \A c \in ExpectedColumns :
                  DOMAIN df_bootstrap.boot[c] = DOMAIN maf_df)
    /\ [][maf_df' = maf_df]_vars

\* bootstrap_maf returned for a table of two rows with both sources and two
\* replicates: eight columns were added
C14_Witness ==
    /\ BootstrapReturned
    /\ Len(maf_df) = 2 /\ HasColumn(maf_df, "Variant_Frequencies_cf")
    /\ num_bootstraps = 2
    /\ Cardinality(DOMAIN df_bootstrap.boot) = 8

C18_NoPartialArtifacts ==
    pc = "error" => DOMAIN files = {}

ReplicateDraws(p, i, len) ==
    LET td == df_bootstrap.boot[<<"Total_Depth_st_bootstrap", i>>][p]
        tf == df_bootstrap.boot[<<"Variant_Frequencies_st_bootstrap", i>>][p]
    IN  IF len = 1 THEN <<[depth |-> td, sample |-> tf[1]]>>
        ELSE <<[depth |-> df_bootstrap.boot[<<"Total_Depth_cf_bootstrap", i>>][p],
                sample |-> df_bootstrap.boot[<<"Variant_Frequencies_cf_bootstrap", i>>][p][1]],
               [depth |-> td, sample |-> tf[1]]>>

\* C28: in every replicate record set each depth written is >= 1 and each
\* reference count a is within 0..d and equals the resampled depth minus the
\* variant count drawn for that site and replicate, per component of a
\* two-source record
C28_ReferenceCountBounds ==
    \A i \in 1..MaxBoot + 1 :
        SSM_BOOTSTRAP(i) \in DOMAIN files =>
            \A x \in DOMAIN files[SSM_BOOTSTRAP(i)] :
                LET r == files[SSM_BOOTSTRAP(i)][x]
                    draws == ReplicateDraws(r.id + 1, i, Len(r.d))
                IN  /\ Len(r.a) = Len(r.d)
                    /\ \A c \in DOMAIN r.d :
                          /\ r.d[c] >= 1
                          /\ 0 <= r.a[c] /\ r.a[c] <= r.d[c]
                          /\ r.d[c] = draws[c].depth
                          /\ r.a[c] = draws[c].depth - draws[c].sample

\* a replicate holds a two-source record whose tissue component has depth 2
\* and reference count 1
C28_Witness ==
    \E i \in 1..MaxBoot :
        /\ SSM_BOOTSTRAP(i) \in DOMAIN files
        /\ \E x \in DOMAIN files[SSM_BOOTSTRAP(i)] :
              LET r == files[SSM_BOOTSTRAP(i)][x]
              IN  Len(r.d) = 2 /\ r.d[2] = 2 /\ r.a[2] = 1

---------------------------------------------------------------------------
(* 1-bootstrap/bootstrap.py: bootstrap_maf, write_bootstrap_ssm *)

\* the first of the two column names that the table has: "if a in columns ..
\* elif b in columns .. else <none>"
first_column(df, a, b) ==
    IF HasColumn(df, a) THEN a ELSE IF HasColumn(df, b) THEN b ELSE "None"

\* bootstrap_maf raises ValueError when neither name of the frequency column
\* or neither name of the depth column exists
bootstrap_maf_raises(df) ==
    \/ first_column(df, "MutVAF", "Variant_Frequencies") = "None"
    \/ first_column(df, "DOR", "Total_Depth") = "None"

\* gene_col, which falls back to "Gene" without looking for it
gene_col_of(df) == IF HasColumn(df, "Hugo_Symbol") THEN "Hugo_Symbol" ELSE "Gene"

\* row[gene_col] is a KeyError when the table has neither gene column
ssm_raises(df) == Len(df.rows) >= 1 /\ ~HasColumn(df.rows, gene_col_of(df.rows))

\* the gene label with a third fallback on the row index
ssm_gene_of(df, p) ==
    LET row == df.rows[p]
        gene_col == gene_col_of(df.rows)
        pos_col == first_column(df.rows, "Position", "Start_Position")
    IN  IF row[gene_col].isstr
        THEN <<"Hugo_Symbol", row[gene_col].name>>
        ELSE IF HasColumn(df.rows, "Chromosome") /\ pos_col # "None"
        THEN <<"Chromosome_Start_Position", row.Chromosome, row[pos_col]>>
        ELSE <<"gene_idx", p - 1>>

\* the dict appended for row p (index p - 1) of replicate bootstrap_num
boot_phylowgs_row(df, p, n) ==
    LET depth == df.boot[<<"Total_Depth_bootstrap", n>>][p]
        vaf   == df.boot[<<"Variant_Frequencies_bootstrap", n>>][p]
    IN  [id |-> p - 1, gene |-> ssm_gene_of(df, p),
         a |-> <<ref_count_of(depth, vaf)>>, d |-> <<depth>>,
         mu_r |-> mu_r, mu_v |-> mu_v]

\* boot_phylowgs after the loop over bootstrap_df.iterrows()
boot_phylowgs(df, n) == [p \in DOMAIN df.rows |-> boot_phylowgs_row(df, p, n)]

\* all replicates share one record-set path
ssm_file_shared(n) == Path(0, "ssm_data_bootstrap.txt")

\* bootstrap{n}/ssm_data_bootstrap{n}.txt and bootstrap{n}/cnv.txt under the
\* output root; directory n is bootstrap{n}
ssm_file(n) == Path(n, "ssm_data_bootstrap" \o ToString(n) \o ".txt")
cnv_file(n) == Path(n, "cnv.txt")

\* the header line written to cnv.txt
CNV_HEADER == <<"chr", "start", "end", "major_cn", "minor_cn", "cellular_prevalence">>

BOOTSTRAPPED_SSMS == Path(0, "bootstrapped_ssms.csv")

---------------------------------------------------------------------------
(* 1-bootstrap/bootstrap.py: main *)

\* bootstrap_df = bootstrap_maf(maf_df, args.num_bootstraps) up to the call
\* of bootstrap_va_dt
SsmBootstrapMaf ==
    /\ pc = "ssm_start"
    /\ IF bootstrap_maf_raises(maf_df)
         THEN /\ pc' = "error"
              /\ UNCHANGED <<engineVars, df_bootstrap>>
         ELSE /\ df_bootstrap' = [rows |-> maf_df, boot |-> NoFiles]
              /\ EnterVaDt(
                    column(maf_df, first_column(maf_df, "MutVAF", "Variant_Frequencies")),
                    column(maf_df, first_column(maf_df, "DOR", "Total_Depth")),
                    num_bootstraps)
              /\ pc' = "ssm_boot"
    /\ UNCHANGED <<maf_df, num_bootstraps, phylowgs, boot_i, stage, files>>

\* bootstrap_maf returns the augmented table and main saves it as
\* bootstrapped_ssms.csv; next is the position of main after the save
SsmSaved(next) ==
    /\ pc = "ssm_boot" /\ epc = "ret"
    /\ df_bootstrap' = concat_columns(df_bootstrap,
                          "Variant_Frequencies_bootstrap", RetFreq,
                          "Total_Depth_bootstrap", RetDepth, bootstrap_num)
    /\ files' = WriteFile(files, BOOTSTRAPPED_SSMS, df_bootstrap')
    /\ pc' = next
    /\ UNCHANGED <<engineVars, maf_df, num_bootstraps, phylowgs>>

\* an exception of bootstrap_va_dt ends main
SsmFails ==
    /\ pc = "ssm_boot" /\ epc = "raise"
    /\ pc' = "error"
    /\ UNCHANGED <<engineVars, pipeVars, files>>

\* the two writes of write_bootstrap_ssm(bootstrap_df, n, args.output)
write_ssm(n) == files' = WriteFile(files, ssm_file(n), boot_phylowgs(df_bootstrap, n))
write_cnv(n) == files' = WriteFile(files, cnv_file(n), CNV_HEADER)

\* main, "for i in range(1, args.num_bootstraps + 1)": entry of the loop
SsmSave ==
    /\ SsmSaved(IF num_bootstraps >= 1 THEN "ssm_export" ELSE "done")
    /\ boot_i' = 1
    /\ UNCHANGED stage

\* write_bootstrap_ssm of replicate boot_i up to df_boot.to_csv(ssm_file)
SsmWriteSsm ==
    /\ pc = "ssm_export"
    /\ IF ssm_raises(df_bootstrap)
         THEN pc' = "error" /\ UNCHANGED files
         ELSE write_ssm(boot_i) /\ pc' = "ssm_cnv"
    /\ UNCHANGED <<engineVars, maf_df, num_bootstraps, phylowgs, df_bootstrap,
                   boot_i, stage>>

\* the rest of write_bootstrap_ssm, cnv.txt, and the next pass of the loop
SsmWriteCnv ==
    /\ pc = "ssm_cnv"
    /\ write_cnv(boot_i)
    /\ boot_i' = boot_i + 1
    /\ pc' = IF boot_i = num_bootstraps THEN "done" ELSE "ssm_export"
    /\ UNCHANGED <<engineVars, maf_df, num_bootstraps, phylowgs, df_bootstrap,
                   stage>>

\* the csv written by process_tracerX.py has the columns Standard; the other
\* tables lack one of them or carry it under its other accepted name
Standard == {"MutVAF", "DOR", "Hugo_Symbol", "Chromosome", "Position"}
OtherName == [MutVAF |-> "Variant_Frequencies", DOR |-> "Total_Depth",
              Hugo_Symbol |-> "Gene", Position |-> "Start_Position"]
SsmSchemas ==
    {Standard} \cup {Standard \ {c} : c \in Standard}
               \cup {(Standard \ {c}) \cup {OtherName[c]} : c \in DOMAIN OtherName}

SsmAFs == {<<1, 2>>}
SsmDepths == {Num(0), Num(1)}

\* the row of key k, over all column names
FullRow(k, f, d) ==
    [key |-> k, MutVAF |-> f, Variant_Frequencies |-> f, DOR |-> d,
     Total_Depth |-> d, Hugo_Symbol |-> Hugo_Symbol(k), Gene |-> Hugo_Symbol(k),
     Chromosome |-> Chromosome(k), Position |-> Start_Position(k),
     Start_Position |-> Start_Position(k)]

SsmTables(schemas) ==
    UNION {{[p \in 1..n |-> [c \in S \cup {"key"} |-> FullRow(p, f[p], d[p])[c]]] :
              f \in [1..n -> SsmAFs], d \in [1..n -> SsmDepths], S \in schemas} :
           n \in 1..MaxSites}

InitSsm ==
    /\ TracIdle
    /\ maf_df \in SsmTables(SsmSchemas)
    /\ num_bootstraps \in 0..MaxBoot
    /\ phylowgs = FALSE
    /\ df_bootstrap = <<>>
    /\ boot_i = 0 /\ stage = <<>>
    /\ files = NoFiles
    /\ pc = "ssm_start"
    /\ AF_list = <<>> /\ Depth_list = <<>> /\ bootstrap_num = 0 /\ count = 0
    /\ new_Depth_list = <<>> /\ AF_list_update = <<>> /\ forced = FALSE
    /\ epc = "idle"
    /\ cf = <<>> /\ st = <<>> /\ bc = {} /\ method = "inner"
    /\ maf_agg = <<>>

NextSsm ==
    \/ SsmBootstrapMaf /\ UNCHANGED <<aggVars, tracVars>>
    \/ Draw /\ UNCHANGED <<aggVars, pipeVars, files, pc, tracVars>>
    \/ Binomial /\ UNCHANGED <<aggVars, pipeVars, files, pc, tracVars>>
    \/ SsmSave /\ UNCHANGED <<aggVars, tracVars>>
    \/ SsmFails /\ UNCHANGED <<aggVars, tracVars>>
    \/ SsmWriteSsm /\ UNCHANGED <<aggVars, tracVars>>
    \/ SsmWriteCnv /\ UNCHANGED <<aggVars, tracVars>>

SpecSsm == InitSsm /\ [][NextSsm]_vars

\* C12: the gene field of every exported record is the row's gene symbol
\* when the row has one, and chromosome_position in every other case
C12_GeneLabel ==
    \A n \in 1..MaxBoot + 1 :
        ssm_file(n) \in DOMAIN files =>
            \A p \in DOMAIN files[ssm_file(n)] :
                LET k == maf_df[p].key IN
                files[ssm_file(n)][p].gene =
                    IF Hugo_Symbol(k).isstr
                    THEN <<"Hugo_Symbol", Hugo_Symbol(k).name>>
                    ELSE <<"Chromosome_Start_Position", Chromosome(k),
                           Start_Position(k)>>

\* the artifacts in the replicate directory bootstrap{i}
InDirectory(i) == {q \in DOMAIN files : q[1] = i}

\* C13: when a run of bootstrap_maf.py with the export flag has completed,
\* every replicate directory 1..N holds the record set, with one record per
\* table row, and a copy-number companion next to it
C13_OutputLayout ==
    (pc = "done" /\ phylowgs) =>
        \A i \in 1..num_bootstraps :
            /\ SSM_BOOTSTRAP(i) \in InDirectory(i)
            /\ Len(files[SSM_BOOTSTRAP(i)]) = Len(maf_df)
            /\ InDirectory(i) # {SSM_BOOTSTRAP(i)}

\* the same layout for 1-bootstrap/bootstrap.py, where it holds
SsmOutputLayout ==
    pc = "done" =>
        \A i \in 1..num_bootstraps :
            /\ InDirectory(i) = {ssm_file(i), cnv_file(i)}
            /\ Len(files[ssm_file(i)]) = Len(maf_df)

\* the table lacks a column the pipeline reads: frequency, depth, gene,
\* chromosome or position, under every accepted name
ColumnMissing ==
    \/ bootstrap_maf_raises(maf_df)
    \/ first_column(maf_df, "Hugo_Symbol", "Gene") = "None"
    \/ ~HasColumn(maf_df, "Chromosome")
    \/ first_column(maf_df, "Position", "Start_Position") = "None"

\* C17: a run on a table that lacks a required column never gets past the
\* failure, and at the time of the failure no artifact has been written
C17_MissingColumnFailsFast ==
    ColumnMissing =>
        /\ pc \in {"ssm_start", "error"}
        /\ files = NoFiles

---------------------------------------------------------------------------
(* write_bootstrap_ssm: the replicate exports run side by side *)

\* 0-preprocess/bootstrap.py: the two files of replicate n go straight into
\* the output_dir handed over, with n in both names
ssm_file_in(output_dir, n) ==
    Path(output_dir, "ssm_data_bootstrap" \o ToString(n) \o ".txt")
cnv_file_in(output_dir, n) ==
    Path(output_dir, "cnv_data_bootstrap" \o ToString(n) \o ".txt")

\* main has saved bootstrapped_ssms.csv and starts one export per replicate
WorkersStart ==
    /\ SsmSaved("workers")
    /\ stage' = [n \in 1..num_bootstraps |-> "start"]
    /\ UNCHANGED boot_i

\* write_bootstrap_ssm(bootstrap_df, n, args.output) up to to_csv(ssm_file)
ParWriteSsm(n) ==
    /\ pc = "workers" /\ stage[n] = "start"
    /\ write_ssm(n)
    /\ stage' = [stage EXCEPT ![n] = "ssm"]
    /\ UNCHANGED <<engineVars, maf_df, num_bootstraps, phylowgs, df_bootstrap,
                   boot_i, pc>>

\* the rest of write_bootstrap_ssm(bootstrap_df, n, args.output): cnv.txt
ParWriteCnv(n) ==
    /\ pc = "workers" /\ stage[n] = "ssm"
    /\ write_cnv(n)
    /\ stage' = [stage EXCEPT ![n] = "done"]
    /\ UNCHANGED <<engineVars, maf_df, num_bootstraps, phylowgs, df_bootstrap,
                   boot_i, pc>>

\* every export has returned
Join ==
    /\ pc = "workers" /\ \A n \in DOMAIN stage : stage[n] = "done"
    /\ pc' = "done"
    /\ UNCHANGED <<engineVars, pipeVars, files>>

InitWorkers ==
    /\ TracIdle
    /\ maf_df \in SsmTables({Standard})
    /\ num_bootstraps \in 0..MaxBoot
    /\ phylowgs = FALSE
    /\ df_bootstrap = <<>>
    /\ boot_i = 0 /\ stage = <<>>
    /\ files = NoFiles
    /\ pc = "ssm_start"
    /\ AF_list = <<>> /\ Depth_list = <<>> /\ bootstrap_num = 0 /\ count = 0
    /\ new_Depth_list = <<>> /\ AF_list_update = <<>> /\ forced = FALSE
    /\ epc = "idle"
    /\ cf = <<>> /\ st = <<>> /\ bc = {} /\ method = "inner"
    /\ maf_agg = <<>>

NextWorkers ==
    \/ SsmBootstrapMaf /\ UNCHANGED <<aggVars, tracVars>>
    \/ Draw /\ UNCHANGED <<aggVars, pipeVars, files, pc, tracVars>>
    \/ Binomial /\ UNCHANGED <<aggVars, pipeVars, files, pc, tracVars>>
    \/ WorkersStart /\ UNCHANGED <<aggVars, tracVars>>
    \/ SsmFails /\ UNCHANGED <<aggVars, tracVars>>
    \/ \E n \in DOMAIN stage : ParWriteSsm(n) /\ UNCHANGED <<aggVars, tracVars>>
    \/ \E n \in DOMAIN stage : ParWriteCnv(n) /\ UNCHANGED <<aggVars, tracVars>>
    \/ Join /\ UNCHANGED <<aggVars, tracVars>>

SpecWorkers == InitWorkers /\ [][NextWorkers]_vars

\* the output directory after the exports of replicates 1..n, one after the
\* other, on top of fs
RECURSIVE SequentialExport(_, _)
SequentialExport(fs, n) ==
    IF n = 0 THEN fs
    ELSE WriteFile(WriteFile(SequentialExport(fs, n - 1),
                             ssm_file(n), boot_phylowgs(df_bootstrap, n)),
                   cnv_file(n), CNV_HEADER)

\* the artifacts no replicate export may write
SharedPaths == {BOOTSTRAPPED_SSMS, BOOTSTRAPPED, SSM_ORIGINAL, CSV}

\* C19: the paths written by the exports of two distinct replicates are
\* disjoint, in both versions of write_bootstrap_ssm, and none is the
\* aggregate table or the original record set; and when exports that ran in
\* any interleaving have all returned, the output directory is the one the
\* sequential loop leaves
C19_ReplicateExportsDisjoint ==
    /\ \A i, j \in 1..MaxBoot + 1 :
          /\ {ssm_file(i), cnv_file(i)} \cap SharedPaths = {}
          /\ i # j => {ssm_file(i), cnv_file(i)} \cap {ssm_file(j), cnv_file(j)} = {}
          /\ \A d \in 0..MaxBoot + 1 :
                /\ {ssm_file_in(d, i), cnv_file_in(d, i)} \cap SharedPaths = {}
                /\ i # j => {ssm_file_in(d, i), cnv_file_in(d, i)}
                               \cap {ssm_file_in(d, j), cnv_file_in(d, j)} = {}
    /\ pc = "workers" => files[BOOTSTRAPPED_SSMS] = df_bootstrap
    /\ pc = "done" =>
          files = SequentialExport(WriteFile(NoFiles, BOOTSTRAPPED_SSMS, df_bootstrap),
                                   num_bootstraps)

\* the export of replicate 2 has returned while the export of replicate 1 is
\* between its two writes, and the two record sets differ
C19_Witness ==
    /\ pc = "workers" /\ num_bootstraps = 2
    /\ stage[1] = "ssm" /\ stage[2] = "done"
    /\ files[ssm_file(1)] # files[ssm_file(2)]

---------------------------------------------------------------------------
(* process_tracerX.py: create_ssm_file, process_patient_data *)

\* str.lower() on the spellings of Baseline_longitudinal
lower(x) ==
    IF x \in {"Baseline", "baseline"} THEN "baseline" ELSE "longitudinal"

\* Series == value: NaN equals nothing, itself included
eq(a, b) == ~isna(a) /\ ~isna(b) /\ a = b

\* the (DateSample, Baseline_longitudinal) pair of a row; drop_duplicates
\* compares the pairs as they are spelled and takes NaN as equal to NaN
pair_of(row) == <<row.DateSample, row.Baseline_longitudinal>>

\* patient_df[['DateSample', 'Baseline_longitudinal']].drop_duplicates():
\* the first row of every pair, in row order
timepoints(df) ==
    LET first == SelectSeq([p \in DOMAIN df |-> p],
                   LAMBDA p : \A q \in 1..(p - 1) : pair_of(df[q]) # pair_of(df[p]))
    IN  [x \in DOMAIN first |-> df[first[x]]]

\* patient_dir / f"{patient_id}_{baseline_longitudinal}_{formatted_date}"
timepoint_dir(timepoint) ==
    <<lower(timepoint.Baseline_longitudinal), timepoint.DateSample>>

\* the rows of patient_df with the DateSample and the Baseline_longitudinal
\* of the timepoint
timepoint_data(df, timepoint) ==
    SelectSeq(df, LAMBDA row :
        /\ eq(row.DateSample, timepoint.DateSample)
        /\ row.Baseline_longitudinal = timepoint.Baseline_longitudinal)

\* ssm_entries: ids from the index after reset_index(drop = True), a from
\* DOR - MutDOR, d from DOR
ssm_entries(data) ==
    [x \in DOMAIN data |->
        [id |-> x - 1,
         gene |-> <<data[x].key, data[x].key, data[x].key>>,
         a |-> data[x].DOR[1] - data[x].MutDOR[1],
         d |-> data[x].DOR[1]]]

\* int(total_depth) fails on a NaN depth
create_ssm_raises(data) == \E x \in DOMAIN data : isna(data[x].DOR)

\* the timepoint of the current pass of the loop
Timepoint == timepoints(patient_df)[tp]

\* one pass up to the patient csv: the directory, the rows of the timepoint,
\* the sentinel and "continue" when there are none, else the csv (the date in
\* the name of the csv is the date in the name of its directory)
TpEnter ==
    /\ pc = "tp_loop" /\ tp <= Len(timepoints(patient_df))
    /\ LET dir == timepoint_dir(Timepoint)
           data == timepoint_data(patient_df, Timepoint)
       IN  IF Len(data) = 0
           THEN /\ files' = WriteFile(files, Path(dir, "empty.txt"), <<>>)
                /\ tp' = tp + 1
                /\ pc' = "tp_loop"
           ELSE /\ files' = WriteFile(files, Path(dir, "patient.csv"), data)
                /\ tp' = tp
                /\ pc' = "tp_ssm"
    /\ UNCHANGED <<patient_df, processed_timepoints>>

\* create_ssm_file up to ssm_df.to_csv(ssm_file)
TpSsm ==
    /\ pc = "tp_ssm"
    /\ LET dir == timepoint_dir(Timepoint)
           data == timepoint_data(patient_df, Timepoint)
       IN  IF create_ssm_raises(data)
           THEN pc' = "error" /\ UNCHANGED files
           ELSE /\ files' = WriteFile(files, Path(dir, "ssm_data.txt"),
                                      ssm_entries(data))
                /\ pc' = "tp_cnv"
    /\ UNCHANGED tracVars

\* cnv_file.touch(), back in the loop: processed_timepoints += 1
TpCnv ==
    /\ pc = "tp_cnv"
    /\ LET q == Path(timepoint_dir(Timepoint), "cnv_data.txt")
       IN  files' = IF q \in DOMAIN files THEN files ELSE WriteFile(files, q, <<>>)
    /\ processed_timepoints' = processed_timepoints + 1
    /\ tp' = tp + 1
    /\ pc' = "tp_loop"
    /\ UNCHANGED patient_df

\* return processed_timepoints
TpReturn ==
    /\ pc = "tp_loop" /\ tp > Len(timepoints(patient_df))
    /\ pc' = "returned"
    /\ UNCHANGED <<tracVars, files>>

\* the cells of a patient's rows in the consolidated csv
DateSamples == {NaN, Num(1), Num(2)}
Spellings == {"Baseline", "baseline", "Longitudinal"}
DORs == {NaN, Num(MaxDepth)}

InitTrac ==
    /\ \E n \in 1..MaxSites :
          \E date \in [1..n -> DateSamples], bl \in [1..n -> Spellings],
             dor \in [1..n -> DORs] :
             patient_df = [p \in 1..n |->
                 [key |-> p, DateSample |-> date[p],
                  Baseline_longitudinal |-> bl[p],
                  DOR |-> dor[p], MutDOR |-> Num(1)]]
    /\ tp = 1
    /\ processed_timepoints = 0
    /\ files = NoFiles
    /\ pc = "tp_loop"
    /\ maf_df = <<>> /\ num_bootstraps = 0 /\ phylowgs = FALSE
    /\ df_bootstrap = <<>> /\ boot_i = 0 /\ stage = <<>>
    /\ AF_list = <<>> /\ Depth_list = <<>> /\ bootstrap_num = 0 /\ count = 0
    /\ new_Depth_list = <<>> /\ AF_list_update = <<>> /\ forced = FALSE
    /\ epc = "idle"
    /\ cf = <<>> /\ st = <<>> /\ bc = {} /\ method = "inner"
    /\ maf_agg = <<>>

NextTrac ==
    \/ TpEnter /\ UNCHANGED <<engineVars, aggVars, pipeVars>>
    \/ TpSsm /\ UNCHANGED <<engineVars, aggVars, pipeVars>>
    \/ TpCnv /\ UNCHANGED <<engineVars, aggVars, pipeVars>>
    \/ TpReturn /\ UNCHANGED <<engineVars, aggVars, pipeVars>>

SpecTrac == InitTrac /\ [][NextTrac]_vars

\* the timepoint directories and what each one holds
TimepointDirs == {q[1] : q \in DOMAIN files}
NamesIn(dir) == {q[2] : q \in {x \in DOMAIN files : x[1] = dir}}
FullSet == {"patient.csv", "ssm_data.txt", "cnv_data.txt"}
HoldsFullSet(dir) ==
    /\ NamesIn(dir) = FullSet
    /\ LET ssm == files[Path(dir, "ssm_data.txt")]
           csv == files[Path(dir, "patient.csv")]
       IN  /\ Len(ssm) = Len(csv)
           /\ \A x \in DOMAIN ssm : ssm[x].id = x - 1

\* every timepoint directory holds the sentinel alone or the full set
TpLayout ==
    \A dir \in TimepointDirs : NamesIn(dir) = {"empty.txt"} \/ HoldsFullSet(dir)

\* C29: once process_patient_data has returned, every timepoint directory of
\* the patient holds either only empty.txt or the full set (patient csv,
\* ssm_data.txt with the ids 0..k-1 of that timepoint, cnv_data.txt), and the
\* returned count is the number of directories holding the full set
C29_TimepointOutputs ==
    pc = "returned" =>
        /\ TpLayout
        /\ processed_timepoints =
               Cardinality({dir \in TimepointDirs : HoldsFullSet(dir)})

---------------------------------------------------------------------------
(* SpecEngine: bootstrap_va_dt on its own, over the inputs of its contract *)
AFs == {<<0, 1>>, <<1, 2>>, <<1, 1>>}

Idle ==
    /\ TracIdle
    /\ cf = <<>> /\ st = <<>> /\ bc = {} /\ method = "inner" /\ maf_agg = <<>>
    /\ maf_df = <<>> /\ num_bootstraps = 0 /\ phylowgs = FALSE
    /\ df_bootstrap = <<>> /\ boot_i = 0 /\ stage = <<>> /\ files = NoFiles /\ pc = "engine"

InitEngine ==
    /\ \E n \in 1..MaxSites :
         /\ AF_list \in [1..n -> AFs]
         /\ Depth_list \in [1..n -> {Num(d) : d \in 0..MaxDepth}]
    /\ bootstrap_num \in 0..MaxBoot
    /\ count = 0
    /\ new_Depth_list = <<>>
    /\ AF_list_update = <<>>
    /\ forced = FALSE
    /\ epc = "loop"
    /\ Idle

NextEngine ==
    \/ Draw /\ UNCHANGED <<aggVars, pipeVars, files, pc, tracVars>>
    \/ Binomial /\ UNCHANGED <<aggVars, pipeVars, files, pc, tracVars>>

SpecEngine == InitEngine /\ [][NextEngine]_vars

\* the depths replicate j received, over all sites
ReplicateDepths(j) == [i \in 1..Len(AF_list) |-> RetDepth[i][j]]
OriginalDepths == [i \in DOMAIN Depth_list |-> Depth_list[i][1]]

\* C1: when the call returns without having taken the forced-floor branch,
\* the new depths of every replicate sum to sum(Depth_list)
C1_CoverageInvariant ==
    (epc = "ret" /\ ~forced) =>
        \A j \in 1..bootstrap_num :
            SeqSum(ReplicateDepths(j)) = SeqSum(OriginalDepths)

\* a call with two sites and two replicates returned an accepted draw after
\* at least one rejected draw
C1_Witness ==
    /\ epc = "ret" /\ ~forced /\ count > 1
    /\ Len(AF_list) = 2 /\ bootstrap_num = 2
    /\ OriginalDepths[1] # OriginalDepths[2]

\* C2: every returned (site, replicate) pair has new depth >= 1 and a new
\* frequency sample / new depth with 0 <= sample <= new depth
C2_RatioValidity ==
    epc = "ret" =>
        \A i \in 1..Len(AF_list) : \A j \in 1..bootstrap_num :
            /\ RetDepth[i][j] >= 1
            /\ RetFreq[i][j][2] = RetDepth[i][j]
            /\ 0 <= RetFreq[i][j][1]
            /\ RetFreq[i][j][1] <= RetFreq[i][j][2]

\* a call returned through the forced floor after the 10th draw, with a
\* forced site and a frequency strictly between 0 and 1
C2_Witness ==
    /\ epc = "ret" /\ forced /\ count = MaxAttempts
    /\ \E i \in 1..Len(AF_list) : \E j \in 1..bootstrap_num :
           OriginalDepths[i] = 0 /\ RetDepth[i][j] = 1 /\ RetFreq[i][j] = <<1, 1>>
    /\ \E i \in 1..Len(AF_list) : \E j \in 1..bootstrap_num :
           0 < RetFreq[i][j][1] /\ RetFreq[i][j][1] < RetFreq[i][j][2]

\* C21: between 1 and 10 draws per call; the loop is back at its head only
\* after a draw with a zero and before the 10th; a call that left the loop
\* without forcing holds a zero-free draw, a call that forced has drawn 10
\* times; and every returned frequency is over the depth of the last draw
C21_RetryPolicy ==
    /\ count \in 0..MaxAttempts
    /\ (epc = "loop" /\ count >= 1) =>
          AnyZero(new_Depth_list) /\ count < MaxAttempts
    /\ epc \in {"binom", "ret"} =>
          /\ count >= 1
          /\ forced => count = MaxAttempts
          /\ ~forced => ~AnyZero(new_Depth_list)
    /\ epc = "ret" =>
          \A i \in 1..Len(AF_list) : \A j \in 1..bootstrap_num :
              AF_list_update[i][j][2] = new_Depth_list[j][i]

\* a call drew three times: two draws with a zero, then a zero-free draw
\* that was accepted for two sites and two replicates
C21_Witness ==
    /\ epc = "ret" /\ count = 3 /\ ~forced
    /\ Len(AF_list) = 2 /\ bootstrap_num = 2

\* C22: for every input of the contract, depths of 0 included, the call does
\* not fail, and what it returns are two matrices of shape sites x n whose
\* entry (i, j) is the value of site i in replicate j
C22_ResultShape ==
    /\ epc # "raise"
    /\ epc = "ret" =>
          /\ Len(RetFreq) = Len(AF_list) /\ Len(RetDepth) = Len(AF_list)
          /\ \A i \in 1..Len(AF_list) :
                /\ Len(RetFreq[i]) = bootstrap_num
                /\ Len(RetDepth[i]) = bootstrap_num
                /\ \A j \in 1..bootstrap_num :
                      /\ RetDepth[i][j] = new_Depth_list[j][i]
                      /\ RetFreq[i][j][1] \in BinomialSupport(RetDepth[i][j], AF_list[i])

\* C25: the step that takes the forced floor leaves a matrix that is some
\* draw M with a zero in which exactly the zero entries became 1: every
\* replicate's depths sum to sum(Depth_list) plus the number of its forced
\* sites, never less than sum(Depth_list)
C25_ForcedFloorAccounting ==
    [][(epc = "loop" /\ forced') =>
          LET total == total_depth_of(Depth_list)[1] IN
          \E M \in [1..bootstrap_num -> MultinomialSupport(Depth_list, total)] :
             /\ AnyZero(M)
             /\ \A j \in 1..bootstrap_num :
                   /\ \A i \in DOMAIN Depth_list :
                         new_Depth_list'[j][i] = IF M[j][i] = 0 THEN 1 ELSE M[j][i]
                   /\ SeqSum(new_Depth_list'[j]) =
                         total + Cardinality({i \in DOMAIN Depth_list : M[j][i] = 0})
                   /\ SeqSum(new_Depth_list'[j]) >= total]_vars

\* two sites of depth 1 drew a zero ten times; one replicate was forced from
\* (2, 0) to (2, 1)
C25_Witness ==
    /\ epc = "ret" /\ forced /\ count = MaxAttempts
    /\ OriginalDepths = <<1, 1>>
    /\ \E j \in 1..bootstrap_num : new_Depth_list[j] = <<2, 1>>

\* the call has a site of depth 0, a positive total depth and n >= 1
ZeroSites == {i \in DOMAIN Depth_list : OriginalDepths[i] = 0}
ZeroSiteCase ==
    ZeroSites # {} /\ SeqSum(OriginalDepths) > 0 /\ bootstrap_num >= 1

\* C26: with a site of depth 0, a positive total and n >= 1, every draw gives
\* that site 0 in every replicate, the loop is left only by the forced floor
\* after exactly 10 draws, the site is returned with depth 1 in every
\* replicate, and no replicate's depths sum to sum(Depth_list)
C26_ZeroSiteExhausts ==
    ZeroSiteCase =>
        /\ epc # "raise"
        /\ (epc = "loop" /\ count >= 1) =>
              \A j \in 1..bootstrap_num : \A i \in ZeroSites :
                  new_Depth_list[j][i] = 0
        /\ epc \in {"binom", "ret"} =>
              /\ count = MaxAttempts /\ forced
              /\ \A j \in 1..bootstrap_num :
                    /\ \A i \in ZeroSites : new_Depth_list[j][i] = 1
                    /\ SeqSum(new_Depth_list[j]) # SeqSum(OriginalDepths)

\* the call for the depths (2, 0) and two replicates has returned
C26_Witness ==
    /\ epc = "ret" /\ OriginalDepths = <<MaxDepth, 0>> /\ bootstrap_num = 2
    /\ \A i \in 1..Len(AF_list) : \A j \in 1..bootstrap_num :
          RetDepth[i][j] = IF i = 1 THEN MaxDepth ELSE 1

====
